---------------------------- MODULE Spec2Model ----------------------------
(***************************************************************************)
(* A model of the chat-controlled VM bot (src/core/bot.py and the modules  *)
(* it wires together): command parsing, permission resolution, the rate    *)
(* limiter, the vote manager with its per-session timer task, the bounded  *)
(* execution queue with its single consumer, and the periodic screenshot   *)
(* loop.                                                                   *)
(*                                                                         *)
(* The program is an asyncio program: a coroutine runs without             *)
(* interruption between two points at which it really suspends (a sleep,   *)
(* a subprocess call, a wait on an empty queue).  Each action below is one *)
(* such run.  An uncontended asyncio.Lock never suspends its acquirer, and *)
(* no coroutine of the program suspends while it holds the vote manager's  *)
(* lock, so the lock is free at the start of every action.                 *)
(*                                                                         *)
(* Python dicts keep insertion order; a dict is modelled as a sequence of  *)
(* [k, v] pairs in insertion order.                                        *)
(*                                                                         *)
(* Time is counted in ticks of a monotonic clock (now).  The overlay and    *)
(* the user-record counters (points, ranks) take no part in any decision   *)
(* of the pipeline and are not state: what a handler announces or awards   *)
(* is computed from the state it runs in.                                  *)
(***************************************************************************)
EXTENDS Integers, Sequences, FiniteSets, TLC

VARIABLES
    now,                \* time.time(), in ticks
    running,            \* ArchChaosBot._running
    user_last,          \* RateLimiter._user_last (dict user -> time)
    global_last,        \* RateLimiter._global_last
    command_cooldowns,  \* RateLimiter._command_cooldowns (dict command -> time)
    banned,             \* ArchChaosBot._banned
    sessions,           \* every VoteSession object created so far, oldest first
    current_session,    \* VoteManager._current_session: index into sessions, 0 = None
    voteTask,           \* the _run_vote tasks created so far: session, position, locals
    subs,               \* per session, the (voter, choice) submissions fed to it
    closes,             \* per session, how many times a timer task has closed it
    calls,              \* per session, how many times the result callback was called
    queue,              \* ExecutionQueue._queue
    dropped,            \* ExecutionQueue.dropped
    execPc,             \* position of _execution_loop
    execItem,           \* the item _execution_loop has dequeued
    shotPc,             \* position of _screenshot_loop
    vmState,            \* the VirtualBox machine state
    global_cooldown,    \* RateLimiter.global_cooldown
    user_cooldown,      \* RateLimiter.user_cooldown
    info_log,           \* the information commands answered so far: name, time, user
    rl_calls,           \* the calls a direct caller has made on the RateLimiter, with results
    seen_ids,           \* seen_ids of YouTubeChatClient.message_stream
    yielded,            \* the message ids message_stream has yielded, in order
    cb_log,             \* the calls _run_vote has made on the callbacks of a direct user
    session_lock,       \* VoteManager._session_lock: TRUE while a coroutine holds it
    resolved,           \* the permission levels resolved for messages taken one by one
    chatPc              \* position of _chat_loop

vars == << now, running, user_last, global_last, command_cooldowns, banned,
           sessions, current_session, voteTask, subs, closes, calls, queue, dropped,
           execPc, execItem, shotPc, vmState, global_cooldown, user_cooldown,
           info_log, rl_calls, seen_ids, yielded, cb_log, session_lock,
           resolved, chatPc >>

rateVars  == << user_last, global_last, command_cooldowns >>
voteVars  == << sessions, current_session, voteTask, subs, closes, calls >>
queueVars == << queue, dropped >>
execVars  == << execPc, execItem >>
limitVars == << global_cooldown, user_cooldown >>
streamVars == << seen_ids, yielded >>
\* what no handler and no loop of the bot writes
cbVars == << cb_log, session_lock >>
asideVars == << limitVars, chatPc, rl_calls, streamVars, cbVars, resolved >>
\* what only the chat handler writes, besides the limiter, the votes and the queue
restVars == << asideVars, info_log >>

---------------------------------------------------------------------------
(* Bounds of the model and the configuration it runs under.                *)

\* Largest number of vote sessions opened in one behaviour.
MaxSessions == 2

\* Largest number of submissions (start_vote joins and cast_vote calls) fed to one session.
MaxSubs == 2

\* Number of clock ticks in one behaviour.
MaxTicks == 1

\* time.time() when the loops start, in seconds.
StartTime == 100

\* config.queue_max_size as configured for the model (the default is 50).
QueueMaxSize == 2

\* config.command_cooldown and config.user_cooldown as configured, in seconds.
GlobalCooldown == 1

UserCooldown == 2

\* Number of clock ticks in one behaviour of the chat pipeline taken alone.
MaxLongTicks == 2

\* Largest global cooldown a directly driven RateLimiter is constructed with.
MaxCooldown == 3

\* Largest number of calls made on a directly driven RateLimiter.
MaxCalls == 3

\* Largest number of information commands answered in one behaviour.
MaxInfo == 2

\* Largest number of messages whose permission level is resolved one by one.
MaxResolved == 2

\* Number of callbacks a direct user of VoteManager registers with on_result.
NumCallbacks == 3

\* Largest message id the transport delivers; ids are 1..MaxMsgId.
MaxMsgId == 4

\* Largest number of messages in one polled batch (maxResults, scaled).
MaxBatch == 2

\* Largest number of messages the stream yields in one behaviour.
MaxYield == 5

\* Size of seen_ids above which message_stream trims it (10000, scaled).
SeenLimit == 3

\* Number of ids the trim keeps (5000, scaled in the same proportion).
SeenKeep == 2

\* config.vote_duration, in seconds.
VoteDuration == 20

None == "None"

---------------------------------------------------------------------------
(* Ordered dicts.                                                          *)

DictKeys(d) == { d[i].k : i \in DOMAIN d }

DictHas(d, key) == key \in DictKeys(d)

DictGet(d, key) == d[CHOOSE i \in DOMAIN d : d[i].k = key].v

\* d[key] = val: an existing key keeps its place, a new key goes last.
DictSet(d, key, val) ==
    IF DictHas(d, key)
    THEN [i \in DOMAIN d |-> IF d[i].k = key THEN [k |-> key, v |-> val] ELSE d[i]]
    ELSE Append(d, [k |-> key, v |-> val])

\* d.get(key, default)
DictGetOr(d, key, default) == IF DictHas(d, key) THEN DictGet(d, key) ELSE default

RECURSIVE SumValues(_)
SumValues(d) == IF d = << >> THEN 0 ELSE Head(d).v + SumValues(Tail(d))

Max(a, b) == IF a >= b THEN a ELSE b

---------------------------------------------------------------------------
(* Command registry and parser (src/commands/parser.py).                   *)

PermValue == [VIEWER |-> 0, MEMBER |-> 1, MOD |-> 2, ADMIN |-> 3]

Def(tier, lo, hi, perm) ==
    [tier |-> tier, min_args |-> lo, max_args |-> hi, required_permission |-> perm]

\* COMMAND_DEFS / _CMD_MAP: no definition declares an alias.
CMD_MAP ==
    [ startvm       |-> Def("admin",   0, 0,  "ADMIN"),
      fullscreen    |-> Def("classic", 0, 0,  "VIEWER"),
      move          |-> Def("classic", 1, 3,  "VIEWER"),
      abs           |-> Def("classic", 2, 2,  "VIEWER"),
      drag          |-> Def("classic", 2, 3,  "VIEWER"),
      click         |-> Def("classic", 0, 1,  "VIEWER"),
      rclick        |-> Def("classic", 0, 0,  "VIEWER"),
      scroll        |-> Def("classic", 1, 1,  "VIEWER"),
      type          |-> Def("classic", 1, 99, "VIEWER"),
      send          |-> Def("classic", 1, 99, "VIEWER"),
      key           |-> Def("classic", 1, 2,  "VIEWER"),
      combo         |-> Def("classic", 1, 1,  "VIEWER"),
      keydown       |-> Def("classic", 1, 1,  "VIEWER"),
      keyup         |-> Def("classic", 1, 1,  "VIEWER"),
      enter         |-> Def("classic", 0, 0,  "VIEWER"),
      wait          |-> Def("classic", 1, 1,  "VIEWER"),
      stats         |-> Def("classic", 0, 0,  "VIEWER"),
      leaderboard   |-> Def("classic", 0, 0,  "VIEWER"),
      uptime        |-> Def("classic", 0, 0,  "VIEWER"),
      help          |-> Def("classic", 0, 1,  "VIEWER"),
      vote          |-> Def("classic", 1, 1,  "VIEWER"),
      shutdown      |-> Def("major",   0, 0,  "VIEWER"),
      forceshutdown |-> Def("major",   0, 0,  "VIEWER"),
      reset         |-> Def("admin",   0, 0,  "ADMIN"),
      revert        |-> Def("admin",   0, 0,  "ADMIN"),
      screenshot    |-> Def("admin",   0, 0,  "MOD"),
      ban           |-> Def("admin",   1, 1,  "MOD"),
      unban         |-> Def("admin",   1, 1,  "MOD") ]

\* str.lower() on the words that occur in the model's messages.
Lower(w) ==
    CASE w = "SHUTDOWN"      -> "shutdown"
      [] w = "ForceShutdown" -> "forceshutdown"
      [] w = "VOTE"          -> "vote"
      [] w = "Move"          -> "move"
      [] OTHER               -> w

\* str.lstrip("!") on a word: the model writes a word with a leading "!" as
\* "!shutdown" and "!forceshutdown".
LStripBang(w) ==
    CASE w = "!shutdown"      -> "shutdown"
      [] w = "!forceshutdown" -> "forceshutdown"
      [] OTHER                -> w

\* the None that parse_command returns for a text that is no valid command
NotACommand ==
    [name |-> None, args |-> << >>, tier |-> None, required_permission |-> "VIEWER"]

(* A raw text, as the transport delivers it, is a sequence of tokens: " "   *)
(* for a run of whitespace, "!" for that character, and words.             *)

RECURSIVE LStrip(_)
LStrip(raw) == IF raw # << >> /\ Head(raw) = " " THEN LStrip(Tail(raw)) ELSE raw

RECURSIVE RStrip(_)
RStrip(raw) ==
    IF raw # << >> /\ raw[Len(raw)] = " " THEN RStrip(SubSeq(raw, 1, Len(raw) - 1)) ELSE raw

\* str.strip()
Strip(raw) == RStrip(LStrip(raw))

\* str.startswith("!")
StartsWithBang(raw) == raw # << >> /\ Head(raw) = "!"

\* shlex.split on a text without quotes, and str.split: the words between the
\* runs of whitespace
Split(raw) ==
    LET IsWord(tok) == tok # " "
    IN  SelectSeq(raw, IsWord)

\* text.strip(), text.startswith("!") and the split of text[1:], as both
\* _process_message and parse_command compute them
TextOf(raw) ==
    LET text == Strip(raw)
    IN  [bang |-> StartsWithBang(text),
         parts |-> IF StartsWithBang(text) THEN Split(Tail(text)) ELSE Split(text)]

\* a parser without the test for the prefix
parse_command_any_prefix(text) ==
    IF text.parts = << >> THEN NotACommand
    ELSE LET name == Lower(Head(text.parts))
             rest == Tail(text.parts)
         IN  IF name \notin DOMAIN CMD_MAP THEN NotACommand
             ELSE LET cmd_def == CMD_MAP[name]
                      args == IF name \in {"type", "send"} /\ rest # << >>
                              THEN << rest >> ELSE rest
                  IN  IF Len(args) < cmd_def.min_args THEN NotACommand
                      ELSE [ name |-> name, args |-> args,
                             tier |-> cmd_def.tier,
                             required_permission |-> cmd_def.required_permission ]

\* a parser that also turns away more arguments than max_args
parse_command_checking_max(text) ==
    IF ~text.bang THEN NotACommand
    ELSE IF text.parts = << >> THEN NotACommand
    ELSE LET name == Lower(Head(text.parts))
             rest == Tail(text.parts)
         IN  IF name \notin DOMAIN CMD_MAP THEN NotACommand
             ELSE LET cmd_def == CMD_MAP[name]
                      args == IF name \in {"type", "send"} /\ rest # << >>
                              THEN << rest >> ELSE rest
                  IN  IF Len(args) < cmd_def.min_args \/ Len(args) > cmd_def.max_args
                      THEN NotACommand
                      ELSE [ name |-> name, args |-> args,
                             tier |-> cmd_def.tier,
                             required_permission |-> cmd_def.required_permission ]

(* A message text is [bang, parts]: whether the stripped text starts with  *)
(* "!", and the words shlex.split (or its fallback, str.split) finds after *)
(* that character.                                                         *)
parse_command(text) ==
    IF ~text.bang THEN NotACommand
    ELSE IF text.parts = << >> THEN NotACommand
    ELSE LET name == Lower(Head(text.parts))
             rest == Tail(text.parts)
         IN  IF name \notin DOMAIN CMD_MAP THEN NotACommand
             ELSE LET cmd_def == CMD_MAP[name]
                      \* type/send: the remaining words rejoined into one argument
                      \* (the joined argument is written as the tuple of its words)
                      args == IF name \in {"type", "send"} /\ rest # << >>
                              THEN << rest >> ELSE rest
                  IN  IF Len(args) < cmd_def.min_args THEN NotACommand
                      ELSE [ name |-> name, args |-> args,
                             tier |-> cmd_def.tier,
                             required_permission |-> cmd_def.required_permission ]

---------------------------------------------------------------------------
(* VoteSession (src/core/vote_system.py).                                  *)

\* add_vote without the decrement of the previous choice
add_vote_no_decrement(s, user_id, command0) ==
    IF ~s.active THEN s
    ELSE LET command == Lower(command0)
             c1 == IF DictHas(s.commands, command) THEN s.commands
                   ELSE DictSet(s.commands, command, 0)
         IN  IF DictHas(s.voters, user_id) /\ DictGet(s.voters, user_id) = command
             THEN [s EXCEPT !.commands = c1]
             ELSE [s EXCEPT
                     !.commands = DictSet(c1, command, DictGet(c1, command) + 1),
                     !.voters   = DictSet(s.voters, user_id, command)]

\* add_vote without the test for a repeated choice: every submission counts
add_vote_always_counts(s, user_id, command0) ==
    IF ~s.active THEN s
    ELSE LET command == Lower(command0)
             c1 == IF DictHas(s.commands, command) THEN s.commands
                   ELSE DictSet(s.commands, command, 0)
             c2 == IF DictHas(s.voters, user_id) /\ DictGet(s.voters, user_id) # command
                   THEN DictSet(c1, DictGet(s.voters, user_id),
                                Max(0, DictGet(c1, DictGet(s.voters, user_id)) - 1))
                   ELSE c1
         IN  [s EXCEPT
                !.commands = DictSet(c2, command, DictGet(c2, command) + 1),
                !.voters   = DictSet(s.voters, user_id, command)]

\* add_vote that moves the count of a changed vote and keeps the voter's old entry
add_vote_stale_voter(s, user_id, command0) ==
    IF ~s.active THEN s
    ELSE LET command == Lower(command0)
             c1 == IF DictHas(s.commands, command) THEN s.commands
                   ELSE DictSet(s.commands, command, 0)
         IN  IF DictHas(s.voters, user_id)
             THEN LET old == DictGet(s.voters, user_id)
                  IN  IF old = command
                      THEN [s EXCEPT !.commands = c1]
                      ELSE LET c2 == DictSet(c1, old, Max(0, DictGet(c1, old) - 1))
                           IN  [s EXCEPT
                                  !.commands = DictSet(c2, command, DictGet(c2, command) + 1)]
             ELSE [s EXCEPT
                     !.commands = DictSet(c1, command, DictGet(c1, command) + 1),
                     !.voters   = DictSet(s.voters, user_id, command)]

\* VoteSession.add_vote, the session it leaves behind.
add_vote(s, user_id, command0) ==
    IF ~s.active THEN s
    ELSE LET command == Lower(command0)
             c1 == IF DictHas(s.commands, command) THEN s.commands
                   ELSE DictSet(s.commands, command, 0)
         IN  IF DictHas(s.voters, user_id)
             THEN LET old == DictGet(s.voters, user_id)
                  IN  IF old = command
                      THEN [s EXCEPT !.commands = c1]
                      ELSE LET c2 == DictSet(c1, old, Max(0, DictGet(c1, old) - 1))
                           IN  [s EXCEPT
                                  !.commands = DictSet(c2, command, DictGet(c2, command) + 1),
                                  !.voters   = DictSet(s.voters, user_id, command)]
             ELSE [s EXCEPT
                     !.commands = DictSet(c1, command, DictGet(c1, command) + 1),
                     !.voters   = DictSet(s.voters, user_id, command)]

\* VoteSession.add_vote, the value it returns: True if the vote was new or changed.
add_vote_ret(s, user_id, command0) ==
    IF ~s.active THEN FALSE
    ELSE IF DictHas(s.voters, user_id)
         THEN DictGet(s.voters, user_id) # Lower(command0)
         ELSE TRUE

\* max() without its key function, as if the first key always won
get_winner_first_key(s) ==
    IF s.commands = << >> THEN None ELSE s.commands[1].k

\* max(self.commands, key=count): the keys are visited in insertion order and
\* the first key holding the largest count is returned.
get_winner(s) ==
    IF s.commands = << >> THEN None
    ELSE LET d == s.commands
             best == CHOOSE i \in DOMAIN d :
                        /\ \A j \in DOMAIN d : d[j].v <= d[i].v
                        /\ \A j \in 1..(i - 1) : d[j].v < d[i].v
         IN  d[best].k

\* insertion of one pair into a list sorted by descending count, behind its equals
RECURSIVE InsertDesc(_, _)
InsertDesc(sorted, p) ==
    IF sorted = << >> THEN << p >>
    ELSE IF Head(sorted).v >= p.v THEN << Head(sorted) >> \o InsertDesc(Tail(sorted), p)
    ELSE << p >> \o sorted

RECURSIVE SortDesc(_, _)
SortDesc(d, acc) ==
    IF d = << >> THEN acc ELSE SortDesc(Tail(d), InsertDesc(acc, Head(d)))

\* dict(sorted(items, key=count, reverse=True)): a stable sort, equal counts keep
\* their insertion order.
get_vote_counts(s) == SortDesc(s.commands, << >>)

\* VoteSession.total_votes
total_votes(s) == SumValues(s.commands)

---------------------------------------------------------------------------
(* RateLimiter (src/core/rate_limiter.py).                                 *)

\* set_command_cooldown, as called by ArchChaosBot.__init__
LeaderboardInterval == 15

StatsInterval == 10

UptimeInterval == 10

command_intervals ==
    [leaderboard |-> LeaderboardInterval, stats |-> StatsInterval, uptime |-> UptimeInterval]

\* self._user_last[user_id] of a defaultdict(float)
UserLast(user_id) == IF user_id \in DOMAIN user_last THEN user_last[user_id] ELSE 0

\* a check that reports the time elapsed instead of the time remaining
check_reporting_elapsed(user_id, command) ==
    IF now - global_last < global_cooldown
    THEN [allowed |-> FALSE, scope |-> "global", wait |-> now - global_last]
    ELSE IF now - UserLast(user_id) < user_cooldown
    THEN [allowed |-> FALSE, scope |-> "user", wait |-> now - UserLast(user_id)]
    ELSE [allowed |-> TRUE, scope |-> "", wait |-> 0]

\* RateLimiter.check, the pair it returns: [allowed, scope, wait]
check(user_id, command) ==
    IF now - global_last < global_cooldown
    THEN [allowed |-> FALSE, scope |-> "global",
          wait |-> global_cooldown - (now - global_last)]
    ELSE IF now - UserLast(user_id) < user_cooldown
    THEN [allowed |-> FALSE, scope |-> "user",
          wait |-> user_cooldown - (now - UserLast(user_id))]
    ELSE IF /\ command # ""
            /\ command \in DOMAIN command_intervals
            /\ now - DictGetOr(command_cooldowns, command, 0) < command_intervals[command]
    THEN [allowed |-> FALSE, scope |-> "command",
          wait |-> command_intervals[command]
                     - (now - DictGetOr(command_cooldowns, command, 0))]
    ELSE [allowed |-> TRUE, scope |-> "", wait |-> 0]

\* RateLimiter.check, what it leaves in _user_last: reading a missing key of a
\* defaultdict inserts it, and the per-user read is reached only past the
\* global check.
user_last_after_check(user_id) ==
    IF now - global_last < global_cooldown \/ user_id \in DOMAIN user_last
    THEN user_last
    ELSE user_last @@ (user_id :> 0)

\* RateLimiter.record
record(user_id, command) ==
    /\ user_last' = [u \in DOMAIN user_last \cup {user_id} |->
                        IF u = user_id THEN now ELSE user_last[u]]
    /\ global_last' = now
    /\ command_cooldowns' = IF command # "" THEN DictSet(command_cooldowns, command, now)
                            ELSE command_cooldowns

\* what a call that returns nothing leaves as its result
NoResult == [allowed |-> FALSE, scope |-> "none", wait |-> 0]

\* a caller calls RateLimiter.check and keeps what it returns
RateCheck(user_id, command) ==
    /\ Len(rl_calls) < MaxCalls
    /\ rl_calls' = Append(rl_calls, [op |-> "check", user_id |-> user_id,
                                     command |-> command, t |-> now,
                                     result |-> check(user_id, command)])
    /\ user_last' = user_last_after_check(user_id)
    /\ UNCHANGED << global_last, command_cooldowns >>
    /\ UNCHANGED << now, running, limitVars, chatPc, streamVars, cbVars, resolved, info_log, banned, voteVars,
                    queueVars, execVars, shotPc, vmState >>

\* a caller calls RateLimiter.record
RateRecord(user_id, command) ==
    /\ Len(rl_calls) < MaxCalls
    /\ rl_calls' = Append(rl_calls, [op |-> "record", user_id |-> user_id,
                                     command |-> command, t |-> now,
                                     result |-> NoResult])
    /\ record(user_id, command)
    /\ UNCHANGED << now, running, limitVars, chatPc, streamVars, cbVars, resolved, info_log, banned, voteVars,
                    queueVars, execVars, shotPc, vmState >>

---------------------------------------------------------------------------
(* VoteManager (src/core/vote_system.py).                                  *)

\* the test of start_vote with the active flag read the wrong way round
SessionOpenInverted == current_session # 0 /\ ~sessions[current_session].active

\* self._current_session and self._current_session.active
SessionOpen == current_session # 0 /\ sessions[current_session].active

\* a session created without the vote of its initiator
NewSessionUnseeded(initial_command, initiator_id) ==
    [ commands   |-> << >>,
      voters     |-> << >>,
      started_at |-> now,
      duration   |-> VoteDuration,
      active     |-> TRUE ]

NewSession(initial_command, initiator_id) ==
    [ commands   |-> << [k |-> initial_command, v |-> 1] >>,
      voters     |-> << [k |-> initiator_id, v |-> initial_command] >>,
      started_at |-> now,
      duration   |-> VoteDuration,
      active     |-> TRUE ]

\* the coroutine self._run_vote(session), about to sleep for session.duration
NewTask(i) ==
    [ session |-> i, pc |-> "sleep", winner |-> None, counts |-> << >>,
      voter_ids |-> << >>, force |-> FALSE ]

\* start_vote that starts a timer task for every submission, joins included
start_vote_spawning(initial_command, initiator_id) ==
    IF current_session # 0 /\ sessions[current_session].active
    THEN /\ Len(subs[current_session]) < MaxSubs
         /\ sessions' = [sessions EXCEPT ![current_session] =
                            add_vote(@, initiator_id, initial_command)]
         /\ subs' = [subs EXCEPT ![current_session] =
                        Append(@, << initiator_id, initial_command >>)]
         /\ voteTask' = Append(voteTask, NewTask(current_session))
         /\ UNCHANGED << current_session, closes, calls >>
    ELSE /\ Len(sessions) < MaxSessions
         /\ sessions' = Append(sessions, NewSession(initial_command, initiator_id))
         /\ current_session' = Len(sessions) + 1
         /\ voteTask' = Append(voteTask, NewTask(Len(sessions) + 1))
         /\ subs' = Append(subs, << << initiator_id, initial_command >> >>)
         /\ closes' = Append(closes, 0)
         /\ calls' = Append(calls, 0)

\* start_vote that restarts the clock of the session a submission joins
start_vote_restarting(initial_command, initiator_id) ==
    IF SessionOpen
    THEN /\ Len(subs[current_session]) < MaxSubs
         /\ sessions' = [sessions EXCEPT ![current_session] =
                            [add_vote(@, initiator_id, initial_command)
                                EXCEPT !.started_at = now]]
         /\ subs' = [subs EXCEPT ![current_session] =
                        Append(@, << initiator_id, initial_command >>)]
         /\ UNCHANGED << current_session, voteTask, closes, calls >>
    ELSE /\ Len(sessions) < MaxSessions
         /\ sessions' = Append(sessions, NewSession(initial_command, initiator_id))
         /\ current_session' = Len(sessions) + 1
         /\ voteTask' = Append(voteTask, NewTask(Len(sessions) + 1))
         /\ subs' = Append(subs, << << initiator_id, initial_command >> >>)
         /\ closes' = Append(closes, 0)
         /\ calls' = Append(calls, 0)

\* VoteManager.start_vote
start_vote(initial_command, initiator_id) ==
    IF SessionOpen
    THEN \* a vote is in progress: register this command in it
         /\ Len(subs[current_session]) < MaxSubs
         /\ sessions' = [sessions EXCEPT ![current_session] =
                            add_vote(@, initiator_id, initial_command)]
         /\ subs' = [subs EXCEPT ![current_session] =
                        Append(@, << initiator_id, initial_command >>)]
         /\ UNCHANGED << current_session, voteTask, closes, calls >>
    ELSE /\ Len(sessions) < MaxSessions
         /\ sessions' = Append(sessions, NewSession(initial_command, initiator_id))
         /\ current_session' = Len(sessions) + 1
         \* asyncio.create_task(self._run_vote(session))
         /\ voteTask' = Append(voteTask, NewTask(Len(sessions) + 1))
         /\ subs' = Append(subs, << << initiator_id, initial_command >> >>)
         /\ closes' = Append(closes, 0)
         /\ calls' = Append(calls, 0)

\* VoteManager.cast_vote
cast_vote(user_id, command) ==
    IF ~SessionOpen
    THEN UNCHANGED voteVars
    ELSE /\ Len(subs[current_session]) < MaxSubs
         /\ sessions' = [sessions EXCEPT ![current_session] =
                            add_vote(@, user_id, command)]
         /\ subs' = [subs EXCEPT ![current_session] = Append(@, << user_id, command >>)]
         /\ UNCHANGED << current_session, voteTask, closes, calls >>

\* [uid for uid, cmd in session.voters.items() if cmd == winner]
voter_ids_of(s, winner) ==
    LET Chose(p) == p.v = winner
        sel == SelectSeq(s.voters, Chose)
    IN  [i \in DOMAIN sel |-> sel[i].k]

\* the maximum of an unordered mapping: any key holding the largest count
AnyMaximalKey(s) ==
    IF s.commands = << >> THEN { None }
    ELSE { s.commands[i].k : i \in { j \in DOMAIN s.commands :
                \A m \in DOMAIN s.commands : s.commands[m].v <= s.commands[j].v } }

\* a sleep that a later vote cancels
TimerDueUnlessVoted(t) ==
    voteTask[t].pc = "sleep" /\ Len(subs[voteTask[t].session]) = 1

\* the values max() can return for the commands of a session: one, because the
\* dict is visited in insertion order
Winners(s) == { get_winner(s) }

\* `await asyncio.sleep(session.duration)` ends: nothing cancels or restarts it
TimerDue(t) == voteTask[t].pc = "sleep"

\* _run_vote that computes and delivers the result and leaves the session active
TimerFireLeavingOpen(t) ==
    /\ t \in DOMAIN voteTask
    /\ TimerDue(t)
    /\ LET i == voteTask[t].session
           closed == sessions[i]
       IN  /\ sessions' = [sessions EXCEPT ![i] = closed]
           /\ closes' = [closes EXCEPT ![i] = @ + 1]
           /\ calls' = [calls EXCEPT ![i] = @ + 1]
           /\ \E winner \in Winners(closed) :
                 voteTask' = [voteTask EXCEPT ![t] =
                    [@ EXCEPT !.winner    = winner,
                              !.counts    = get_vote_counts(closed),
                              !.voter_ids = voter_ids_of(closed, winner),
                              !.pc        = IF winner = None THEN "done" ELSE "cb_sleep"]]
    /\ UNCHANGED << now, running, rateVars, restVars, banned, current_session, subs,
                    queueVars, execVars, shotPc, vmState >>

(* VoteManager._run_vote from the end of its sleep to the first suspension *)
(* of the result callback: the session is closed under the lock, the       *)
(* winner, the counts and the winner's voters are computed, and            *)
(* ArchChaosBot._on_vote_result (the one registered callback) is called    *)
(* and runs up to its asyncio.sleep(1), or returns at once when there is   *)
(* no winner.                                                              *)
TimerFire(t) ==
    /\ t \in DOMAIN voteTask
    /\ TimerDue(t)
    /\ LET i == voteTask[t].session
           closed == [sessions[i] EXCEPT !.active = FALSE]
       IN  /\ sessions' = [sessions EXCEPT ![i] = closed]
           /\ closes' = [closes EXCEPT ![i] = @ + 1]
           /\ calls' = [calls EXCEPT ![i] = @ + 1]
           /\ \E winner \in Winners(closed) :
                 voteTask' = [voteTask EXCEPT ![t] =
                    [@ EXCEPT !.winner    = winner,
                              !.counts    = get_vote_counts(closed),
                              !.voter_ids = voter_ids_of(closed, winner),
                              !.pc        = IF winner = None THEN "done" ELSE "cb_sleep"]]
    /\ UNCHANGED << now, running, rateVars, restVars, banned, current_session, subs,
                    queueVars, execVars, shotPc, vmState >>

\* _on_vote_result after its sleep: the winner decides the call of execute_shutdown,
\* which suspends in VMController.shutdown_vm; any other winner ends the callback.
CallbackWake(t) ==
    /\ t \in DOMAIN voteTask
    /\ voteTask[t].pc = "cb_sleep"
    /\ voteTask' = [voteTask EXCEPT ![t] =
           IF @.winner = "shutdown" THEN [@ EXCEPT !.pc = "shutdown", !.force = FALSE]
           ELSE IF @.winner = "forceshutdown" THEN [@ EXCEPT !.pc = "shutdown", !.force = TRUE]
           ELSE [@ EXCEPT !.pc = "done"]]
    /\ UNCHANGED << now, running, rateVars, restVars, banned, sessions, current_session, subs,
                    closes, calls, queueVars, execVars, shotPc, vmState >>

\* VMController.shutdown_vm returns: on failure execute_shutdown fails and the
\* callback ends; on success the machine is powered off (a hard power-off at once,
\* an ACPI request possibly later or never) and execute_shutdown sleeps.
ShutdownReturn(t) ==
    /\ t \in DOMAIN voteTask
    /\ voteTask[t].pc = "shutdown"
    /\ \E ok \in BOOLEAN :
         IF ok
         THEN /\ voteTask' = [voteTask EXCEPT ![t].pc = "restart_wait"]
              /\ vmState' \in (IF voteTask[t].force THEN {"poweroff"}
                               ELSE {"poweroff", vmState})
         ELSE /\ voteTask' = [voteTask EXCEPT ![t].pc = "done"]
              /\ UNCHANGED vmState
    /\ UNCHANGED << now, running, rateVars, restVars, banned, sessions, current_session, subs,
                    closes, calls, queueVars, execVars, shotPc >>

\* execute_shutdown after its sleeps: it calls VMController.start_vm.
RestartWake(t) ==
    /\ t \in DOMAIN voteTask
    /\ voteTask[t].pc = "restart_wait"
    /\ voteTask' = [voteTask EXCEPT ![t].pc = "start_vm"]
    /\ vmState' \in (IF voteTask[t].force THEN {vmState} ELSE {"poweroff", vmState})
    /\ UNCHANGED << now, running, rateVars, restVars, banned, sessions, current_session, subs,
                    closes, calls, queueVars, execVars, shotPc >>

\* VMController.start_vm returns (started, already running, or failed) and the
\* callback ends.
StartReturn(t) ==
    /\ t \in DOMAIN voteTask
    /\ voteTask[t].pc = "start_vm"
    /\ voteTask' = [voteTask EXCEPT ![t].pc = "done"]
    /\ vmState' \in {"running", vmState}
    /\ UNCHANGED << now, running, rateVars, restVars, banned, sessions, current_session, subs,
                    closes, calls, queueVars, execVars, shotPc >>

(* A VoteManager used directly: NumCallbacks callbacks are registered with  *)
(* on_result, in the order 1..NumCallbacks, and each of them may raise.    *)

Callbacks == 1..NumCallbacks

\* `async with self._session_lock` around a block that does not suspend: the
\* lock must be free to enter and is released when the block is left
WithSessionLock(body) ==
    /\ ~session_lock
    /\ body
    /\ session_lock' = FALSE

\* a caller awaits start_vote
DirectStartVote(user_id, command) ==
    /\ WithSessionLock(start_vote(command, user_id))
    /\ UNCHANGED << now, running, rateVars, limitVars, chatPc, rl_calls, streamVars, resolved, info_log, cb_log,
                    banned, queueVars, execVars, shotPc, vmState >>

\* a caller awaits cast_vote
DirectCastVote(user_id, command) ==
    /\ WithSessionLock(cast_vote(user_id, command))
    /\ UNCHANGED << now, running, rateVars, limitVars, chatPc, rl_calls, streamVars, resolved, info_log, cb_log,
                    banned, queueVars, execVars, shotPc, vmState >>

\* _run_vote from the end of its sleep to the start of the loop over the
\* callbacks: the session is closed under the lock, and winner, counts and
\* voter_ids are computed once
RunVoteClose(t) ==
    /\ t \in DOMAIN voteTask
    /\ TimerDue(t)
    /\ LET i == voteTask[t].session
           closed == [sessions[i] EXCEPT !.active = FALSE]
       IN  /\ WithSessionLock(sessions' = [sessions EXCEPT ![i] = closed])
           /\ closes' = [closes EXCEPT ![i] = @ + 1]
           /\ \E winner \in Winners(closed) :
                 voteTask' = [voteTask EXCEPT ![t] =
                    [@ EXCEPT !.winner    = winner,
                              !.counts    = get_vote_counts(closed),
                              !.voter_ids = voter_ids_of(closed, winner),
                              !.pc        = "callbacks"]]
    /\ UNCHANGED << now, running, rateVars, limitVars, chatPc, rl_calls, streamVars, resolved, info_log, cb_log,
                    banned, current_session, subs, calls, queueVars, execVars, shotPc,
                    vmState >>

\* the callback the loop of task t calls next
NextCallback(t) == 1 + Cardinality({ n \in DOMAIN cb_log : cb_log[n].task = t })

\* a loop over the callbacks that a raising callback ends
AfterCallbackUnguarded(k, raised) ==
    IF raised \/ k = NumCallbacks THEN "done" ELSE "callbacks"

\* where the loop stands once callback k has returned or raised: the try/except
\* around the call catches the exception and the loop goes on
AfterCallback(k, raised) == IF k = NumCallbacks THEN "done" ELSE "callbacks"

\* one round of `for cb in self._on_result_callbacks`: the callback is awaited
\* with the values computed at the close, and returns or raises
InvokeCallback(t) ==
    /\ t \in DOMAIN voteTask
    /\ voteTask[t].pc = "callbacks"
    /\ \E raised \in BOOLEAN :
         /\ cb_log' = Append(cb_log, [ task |-> t, cb |-> NextCallback(t),
                                       winner |-> voteTask[t].winner,
                                       counts |-> voteTask[t].counts,
                                       voter_ids |-> voteTask[t].voter_ids,
                                       raised |-> raised ])
         /\ voteTask' = [voteTask EXCEPT ![t].pc = AfterCallback(NextCallback(t), raised)]
    /\ calls' = [calls EXCEPT ![voteTask[t].session] = @ + 1]
    /\ UNCHANGED << now, running, rateVars, limitVars, chatPc, rl_calls, streamVars, resolved, info_log,
                    session_lock, banned, sessions, current_session, subs, closes, queueVars,
                    execVars, shotPc, vmState >>

---------------------------------------------------------------------------
(* ExecutionQueue (src/core/rate_limiter.py).                              *)

\* a put that never finds the queue full
put_unbounded(item) ==
    /\ queue' = Append(queue, item)
    /\ UNCHANGED dropped

\* a put that places the item ahead of the waiting ones
put_at_front(item) ==
    IF Len(queue) < QueueMaxSize
    THEN /\ queue' = << item >> \o queue
         /\ UNCHANGED dropped
    ELSE /\ dropped' = dropped + 1
         /\ UNCHANGED queue

\* ExecutionQueue.put: put_nowait, or count the drop when the queue is full
put(item) ==
    IF Len(queue) < QueueMaxSize
    THEN /\ queue' = Append(queue, item)
         /\ UNCHANGED dropped
    ELSE /\ dropped' = dropped + 1
         /\ UNCHANGED queue

---------------------------------------------------------------------------
(* OverlayServer (src/obs_overlay/server.py) and the overlay helpers of    *)
(* ArchChaosBot: the one channel on which the bot answers.                 *)

\* collections.deque(maxlen=80)
OverlayMaxLen == 80

\* OverlayServer.add_bot_message on a feed: the entry carries the text and the
\* time, and nothing about who may read it
add_bot_message(chat, text, t) ==
    LET entry == [bot |-> TRUE, text |-> text, t |-> t]
    IN  IF Len(chat) >= OverlayMaxLen THEN Append(Tail(chat), entry)
        ELSE Append(chat, entry)

\* ArchChaosBot._announce
announce(chat, text, t) == add_bot_message(chat, << text >>, t)

\* ArchChaosBot._announce_for: the same feed, the text prefixed with "@user"
announce_for(chat, user, text, t) == add_bot_message(chat, << "@", user, text >>, t)

\* OverlayServer._handle_state, its new_messages: the request carries a time
\* and no identity
handle_state(chat, since) ==
    LET IsNew(m) == m.t > since
    IN  SelectSeq(chat, IsNew)

---------------------------------------------------------------------------
(* ArchChaosBot._process_message (src/core/bot.py).                        *)

\* config.admin_user_ids and config.mod_user_ids
AdminIds == {"admin1", "dual"}

ModIds == {"mod1", "dual"}

\* a resolution that tests the lowest badge first
ResolveMemberFirst(msg) ==
    IF msg.is_member THEN "MEMBER"
    ELSE IF msg.author_id \in ModIds \/ msg.is_moderator THEN "MOD"
    ELSE IF msg.author_id \in AdminIds \/ msg.is_owner THEN "ADMIN"
    ELSE "VIEWER"

\* the permission level of the author of a message
Resolve(msg) ==
    IF msg.author_id \in AdminIds \/ msg.is_owner THEN "ADMIN"
    ELSE IF msg.author_id \in ModIds \/ msg.is_moderator THEN "MOD"
    ELSE IF msg.is_member THEN "MEMBER"
    ELSE "VIEWER"

\* the handler's resolution of the level of one message, kept with the message
ResolvePermission(msg) ==
    /\ Len(resolved) < MaxResolved
    /\ resolved' = Append(resolved, [msg |-> msg, perm |-> Resolve(msg)])
    /\ UNCHANGED << now, running, rateVars, limitVars, chatPc, rl_calls, streamVars, cbVars, info_log,
                    banned, voteVars, queueVars, execVars, shotPc, vmState >>

\* no command is turned away in silence
SilentNever == {}

\* the commands a rate-limited sender gets no notice for
SilentWhenLimited ==
    {"move", "click", "rclick", "type", "send", "key", "enter", "scroll", "abs", "drag"}

\* config.points_per_command
PointsPerCommand == 1

\* the commands answered or handled before the rate limiter is consulted
InfoCommands == {"help", "stats", "leaderboard", "uptime"}

\* a routing that forgets the vote: every admitted command is queued
RouteAllToQueue(cmd) == "queue"

\* the tier routing of an admitted command: a major command goes to the vote
\* manager, every other command to the execution queue
RouteOf(cmd) == IF cmd.tier = "major" THEN "vote" ELSE "queue"

\* _handle_vote_cast
handle_vote_cast(msg, cmd) ==
    IF cmd.args = << >> THEN UNCHANGED voteVars
    ELSE LET target == LStripBang(Lower(cmd.args[1]))
         IN  IF target \notin {"shutdown", "forceshutdown"} THEN UNCHANGED voteVars
             ELSE cast_vote(msg.author_id, target)

\* str.lstrip("@") on a word
LStripAt(w) ==
    CASE w = "@U1" -> "U1"
      [] w = "@u1" -> "u1"
      [] OTHER     -> w

\* _handle_moderation
handle_moderation(msg, cmd, perm) ==
    IF PermValue[perm] < PermValue["MOD"] \/ cmd.args = << >> THEN UNCHANGED banned
    ELSE IF cmd.name = "ban" THEN banned' = banned \cup {LStripAt(cmd.args[1])}
    ELSE banned' = banned \ {LStripAt(cmd.args[1])}

ProcessMessage(msg) ==
    /\ running
    /\ LET cmd  == parse_command(msg.text)
           perm == Resolve(msg)
       IN  IF \/ ~msg.text.bang
              \/ msg.author_id \in banned
              \/ cmd = NotACommand
           THEN UNCHANGED << rateVars, banned, voteVars, queueVars, info_log >>
           ELSE IF PermValue[cmd.required_permission] > PermValue[perm]
           THEN UNCHANGED << rateVars, banned, voteVars, queueVars, info_log >>
           ELSE IF cmd.name \in InfoCommands
           THEN \* answered on the overlay at once
                /\ Len(info_log) < MaxInfo
                /\ info_log' = Append(info_log, [name |-> cmd.name, t |-> now,
                                                 user_id |-> msg.author_id])
                /\ UNCHANGED << rateVars, banned, voteVars, queueVars >>
           ELSE IF cmd.name = "vote"
           THEN /\ handle_vote_cast(msg, cmd)
                /\ UNCHANGED << rateVars, banned, queueVars, info_log >>
           ELSE IF cmd.name \in {"ban", "unban"}
           THEN /\ handle_moderation(msg, cmd, perm)
                /\ UNCHANGED << rateVars, voteVars, queueVars, info_log >>
           ELSE IF ~check(msg.author_id, cmd.name).allowed
           THEN /\ user_last' = user_last_after_check(msg.author_id)
                /\ UNCHANGED << global_last, command_cooldowns, banned, voteVars, queueVars,
                                info_log >>
           ELSE IF RouteOf(cmd) = "vote"
           THEN \* _handle_major_command
                /\ start_vote(cmd.name, msg.author_id)
                /\ user_last' = user_last_after_check(msg.author_id)
                /\ UNCHANGED << global_last, command_cooldowns, banned, queueVars, info_log >>
           ELSE /\ record(msg.author_id, cmd.name)
                /\ put([cmd |-> cmd, user_display |-> msg.author_display,
                        user_id |-> msg.author_id])
                /\ UNCHANGED << banned, voteVars, info_log >>
    /\ UNCHANGED << now, running, execVars, shotPc, vmState, asideVars >>

---------------------------------------------------------------------------
(* CommandExecutor.execute (src/commands/executor.py) and the execution    *)
(* loop (src/core/bot.py).                                                 *)

\* What CommandExecutor.execute does for a command name: the controller call it
\* suspends in, "sleep" for !wait, or "refuse" when it returns a failure at once.
ExecutorOp(name) ==
    CASE name = "startvm"                                   -> "start_vm"
      [] name = "fullscreen"                                -> "toggle_fullscreen"
      [] name \in {"move", "abs", "drag", "click", "rclick", "scroll"} -> "mouse"
      [] name \in {"type", "send", "key", "combo", "keydown", "keyup", "enter"} -> "keyboard"
      [] name = "wait"                                      -> "sleep"
      [] name = "reset"                                     -> "reset_vm"
      [] name = "revert"                                    -> "restore_snapshot"
      [] name = "screenshot"                                -> "screenshot"
      [] name \in {"shutdown", "forceshutdown"}             -> "refuse"
      [] OTHER                                              -> "refuse"

\* CommandResult.ok and CommandResult.fail; every message the executor builds
\* is a non-empty string
Ok(public) == [success |-> TRUE, message |-> "text", public |-> public]

Fail == [success |-> FALSE, message |-> "text", public |-> TRUE]

\* how the handler of a command can end: every VBoxManage call it makes returns
\* 0 ("ok"), one of them returns non-zero or times out ("failed", VMController._run
\* then answers -1), or the handler raises ("raised", as int(float("inf")) does)
Outcomes(name) ==
    IF ExecutorOp(name) \in {"sleep", "refuse"} THEN {"ok"} ELSE {"ok", "failed", "raised"}

\* CommandExecutor.execute, the CommandResult it returns for a well-formed
\* command: the mouse handlers, _fullscreen, _type, _send, _combo and _enter
\* drop the value the controller returns
ExecResult(name, outcome) ==
    IF ExecutorOp(name) = "refuse" THEN Fail
    ELSE IF outcome = "raised" THEN Fail
    ELSE IF name \in {"startvm", "reset", "revert", "screenshot"}
    THEN IF outcome = "ok" THEN Ok(TRUE) ELSE Fail
    ELSE IF name \in {"key", "keydown", "keyup"}
    THEN IF outcome = "ok" THEN Ok(FALSE) ELSE Fail
    ELSE IF name \in {"type", "send", "combo"} THEN Ok(TRUE)
    ELSE Ok(FALSE)

\* the execution loop announces the result to the requester
Announced(result) ==
    \/ result.message # "" /\ result.public
    \/ ~result.success /\ result.message # ""

\* VMController.type_text, the VBoxManage calls it makes for a text when the
\* keyboardputstring call returns rc (-1 for a timeout): on a failure it goes on
\* to _type_scancodes, one keyboardputscancode call per character.  A text is
\* the tuple of its one-letter words, joined by single spaces.
type_text(text, rc) ==
    IF text = << >> THEN << >>
    ELSE IF rc = 0 THEN << [op |-> "keyboardputstring", rc |-> 0] >>
    ELSE << [op |-> "keyboardputstring", rc |-> rc] >>
         \o [i \in 1..(2 * Len(text) - 1) |-> [op |-> "keyboardputscancode", rc |-> 0]]

\* the commands dispatched without the readiness probe
ReadyAllow == {"startvm", "stats", "leaderboard", "uptime", "help", "screenshot"}

NoItem == [cmd |-> NotACommand, user_display |-> "", user_id |-> ""]

\* the head of a loop defined as `while True`
LoopTopUntested == "get"

\* the head of the while loop: `while self._running`
LoopTop == IF running THEN "get" ELSE "done"

\* the loop calls executor.execute(cmd): it suspends in a controller call (or in
\* the sleep of !wait), or execute returns at once and the iteration ends
Dispatch(item) ==
    IF ExecutorOp(item.cmd.name) = "refuse"
    THEN /\ execPc' = LoopTop
         /\ execItem' = NoItem
    ELSE /\ execPc' = "exec"
         /\ execItem' = item

\* queue.get() delivers an item: commands outside the allow-list first probe
\* the machine state (VMController.is_running)
ExecGet ==
    /\ execPc = "get"
    /\ queue # << >>
    /\ queue' = Tail(queue)
    /\ IF Head(queue).cmd.name \notin ReadyAllow
       THEN /\ execPc' = "probe"
            /\ execItem' = Head(queue)
       ELSE Dispatch(Head(queue))
    /\ UNCHANGED << now, running, rateVars, restVars, banned, voteVars, dropped, shotPc, vmState >>

\* the wait for an item times out and the loop finds _running false
ExecTimeout ==
    /\ execPc = "get"
    /\ queue = << >>
    /\ ~running
    /\ execPc' = "done"
    /\ UNCHANGED << now, running, rateVars, restVars, banned, voteVars, queueVars, execItem,
                    shotPc, vmState >>

\* what VMController.is_running can answer: True only for a running machine,
\* False also when the VBoxManage call fails or times out
ProbeAnswers == IF vmState = "running" THEN {TRUE, FALSE} ELSE {FALSE}

\* is_running returns to the execution loop
ExecProbeReturn ==
    /\ execPc = "probe"
    /\ \E up \in ProbeAnswers :
         IF up THEN Dispatch(execItem)
         ELSE /\ execPc' = LoopTop
              /\ execItem' = NoItem
    /\ UNCHANGED << now, running, rateVars, restVars, banned, voteVars, queueVars, shotPc, vmState >>

\* the machine states a finished controller call can leave
StateAfter(op) ==
    CASE op = "start_vm"         -> {"running", vmState}
      [] op = "restore_snapshot" -> {"running", "poweroff", vmState}
      [] OTHER                   -> {vmState}

\* executor.execute returns to the execution loop
ExecReturn ==
    /\ execPc = "exec"
    /\ vmState' \in StateAfter(ExecutorOp(execItem.cmd.name))
    /\ execPc' = LoopTop
    /\ execItem' = NoItem
    /\ UNCHANGED << now, running, rateVars, restVars, banned, voteVars, queueVars, shotPc >>

---------------------------------------------------------------------------
(* ArchChaosBot._screenshot_loop.                                          *)

\* the sleep between two rounds ends
ShotWake ==
    /\ shotPc = "sleep"
    /\ shotPc' = IF running THEN "probe" ELSE "done"
    /\ UNCHANGED << now, running, rateVars, restVars, banned, voteVars, queueVars, execVars, vmState >>

\* is_running returns to the screenshot loop
ShotProbeReturn ==
    /\ shotPc = "probe"
    /\ \E up \in ProbeAnswers : shotPc' = IF up THEN "shot" ELSE "sleep"
    /\ UNCHANGED << now, running, rateVars, restVars, banned, voteVars, queueVars, execVars, vmState >>

\* VMController.screenshot returns
ShotReturn ==
    /\ shotPc = "shot"
    /\ shotPc' = "sleep"
    /\ UNCHANGED << now, running, rateVars, restVars, banned, voteVars, queueVars, execVars, vmState >>

---------------------------------------------------------------------------
(* YouTubeChatClient.message_stream (src/api/youtube_chat.py).  A message  *)
(* of a batch is represented by its message_id.                            *)

MsgIds == 1..MaxMsgId

\* the batches poll_messages may return: any ids in any order, repeats included
Batches == UNION { [1..n -> MsgIds] : n \in 0..MaxBatch }

\* the for loop over one batch, from the i-th message on: a message whose id
\* is not in seen is added to it and yielded
RECURSIVE Intake(_, _, _, _)
Intake(messages, i, seen, out) ==
    IF i > Len(messages) THEN [seen |-> seen, out |-> out]
    ELSE IF messages[i] \notin seen
         THEN Intake(messages, i + 1, seen \cup {messages[i]}, Append(out, messages[i]))
         ELSE Intake(messages, i + 1, seen, out)

\* set(list(seen_ids)[-5000:]): the last ids in the iteration order of a set
\* of strings, which is any order; every subset of that size can be kept
Trimmed(seen) ==
    IF Cardinality(seen) > SeenLimit
    THEN { kept \in SUBSET seen : Cardinality(kept) = SeenKeep }
    ELSE { seen }

\* one round of the while loop: poll, yield the unseen messages, trim, sleep
Poll(messages) ==
    LET r == Intake(messages, 1, seen_ids, yielded)
    IN  /\ Len(r.out) <= MaxYield
        /\ yielded' = r.out
        /\ seen_ids' \in Trimmed(r.seen)
        /\ UNCHANGED << running, now, rateVars, limitVars, chatPc, rl_calls, cbVars, resolved, info_log, banned,
                        voteVars, queueVars, execVars, shotPc, vmState >>

---------------------------------------------------------------------------
(* The clock and the shutdown signal.                                      *)

Tick ==
    /\ now < StartTime + MaxTicks
    /\ now' = now + 1
    /\ UNCHANGED << running, rateVars, restVars, banned, voteVars, queueVars, execVars, shotPc,
                    vmState >>

\* the clock over the longer span of the chat pipeline taken alone
LongTick ==
    /\ now < StartTime + MaxLongTicks
    /\ now' = now + 1
    /\ UNCHANGED << running, rateVars, restVars, banned, voteVars, queueVars, execVars, shotPc,
                    vmState >>

\* _chat_loop: message_stream yields a message and the loop finds _running
\* false; the flag is tested nowhere else in the loop
ChatBreak ==
    /\ chatPc = "stream"
    /\ ~running
    /\ chatPc' = "done"
    /\ UNCHANGED << now, running, rateVars, limitVars, rl_calls, streamVars, cbVars, resolved,
                    info_log, banned, voteVars, queueVars, execVars, shotPc, vmState >>

\* ArchChaosBot.shutdown
BotShutdown ==
    /\ running
    /\ running' = FALSE
    /\ UNCHANGED << now, rateVars, restVars, banned, voteVars, queueVars, execVars, shotPc, vmState >>

---------------------------------------------------------------------------
(* The messages of the model.                                              *)

Text(bang, parts) == [bang |-> bang, parts |-> parts]

Msg(id, display, text, owner, moderator, member) ==
    [ author_id |-> id, author_display |-> display, text |-> text,
      is_owner |-> owner, is_moderator |-> moderator, is_member |-> member ]

Viewers == { << "u1", "U1" >>, << "u2", "U2" >> }

\* what takes part in a vote
VoteTexts ==
    { Text(TRUE, << "SHUTDOWN" >>),
      Text(TRUE, << "forceshutdown" >>),
      Text(TRUE, << "vote", "shutdown" >>),
      Text(TRUE, << "VOTE", "!forceshutdown" >>),
      Text(TRUE, << "vote", "reboot" >>),
      Text(FALSE, << "shutdown" >>) }

VoteMsgs == { Msg(u[1], u[2], t, FALSE, FALSE, FALSE) : u \in Viewers, t \in VoteTexts }

\* what reaches the execution queue, or is turned away before it
QueueMsgs ==
    { Msg("u1", "U1", Text(TRUE, << "Move", "left" >>), FALSE, FALSE, FALSE),
      Msg("u1", "U1", Text(TRUE, << "move" >>), FALSE, FALSE, FALSE),
      Msg("u2", "U2", Text(TRUE, << "startvm" >>), FALSE, FALSE, FALSE),
      Msg("owner", "Owner", Text(TRUE, << "startvm" >>), TRUE, FALSE, FALSE) }

\* the messages of the whole-bot specification: a viewer opens a vote with
\* !forceshutdown and may move the vote to shutdown
Msgs ==
    QueueMsgs \cup
    { Msg("u1", "U1", Text(TRUE, << "forceshutdown" >>), FALSE, FALSE, FALSE),
      Msg("u1", "U1", Text(TRUE, << "vote", "shutdown" >>), FALSE, FALSE, FALSE) }

\* the messages of the chat pipeline taken alone: commands for the queue, both
\* major commands, and an information command with a configured interval
ChatMsgs ==
    QueueMsgs \cup
    { Msg("u1", "U1", Text(TRUE, << "SHUTDOWN" >>), FALSE, FALSE, FALSE),
      Msg("u2", "U2", Text(TRUE, << "forceshutdown" >>), FALSE, FALSE, FALSE),
      Msg("u2", "U2", Text(TRUE, << "stats" >>), FALSE, FALSE, FALSE) }

\* raw texts with and without the prefix, with whitespace around them, and
\* with a "!" that is not at the start
RawTexts ==
    { << >>,
      << " " >>,
      << "move", " ", "left" >>,
      << " ", "shutdown", " " >>,
      << "hey", " ", "!", "move", " ", "left" >>,
      << "!", "move", " ", "left" >>,
      << " ", "!", "forceshutdown", " " >>,
      << "!", " ", "move", " ", "left" >>,
      << "!", "type", " ", "a", " ", "b" >> }

\* argument lists of every length from none to more than any command but
\* type and send declares
ArgLists ==
    { << >>, << "a" >>, << "a", "b" >>, << "a", "b", "a" >>, << "a", "b", "a", "b" >> }

\* the viewer u1, displayed as U1, sends commands with any of these lists
ArgMsgs ==
    { Msg("u1", "U1", Text(TRUE, << name >> \o args), FALSE, FALSE, FALSE) :
        name \in {"move", "abs", "click", "type", "ban"}, args \in ArgLists }

\* a moderator bans and unbans u1 by the name the chat displays
BanMsgs ==
    { Msg("mod1", "Mod", Text(TRUE, parts), FALSE, TRUE, FALSE) :
        parts \in { << "ban", "U1" >>, << "ban", "@U1" >>, << "unban", "U1" >> } }

\* the messages of the intake taken alone: u1 sends any of the raw texts
RawMsgs == { Msg("u1", "U1", TextOf(raw), FALSE, FALSE, FALSE) : raw \in RawTexts }

\* messages of every combination of id-list membership and badges: an id on the
\* admin list, on the mod list, on both, on neither, with any badges
PermMsgs ==
    { Msg(id, "Name", Text(TRUE, << "startvm" >>), owner, moderator, member) :
        id \in {"admin1", "mod1", "dual", "u1"},
        owner \in BOOLEAN, moderator \in BOOLEAN, member \in BOOLEAN }

---------------------------------------------------------------------------
(* Specifications.                                                         *)

\* the state once ArchChaosBot.start has started its loops, the configured
\* cooldowns apart
InitState ==
    /\ now = StartTime
    /\ running = TRUE
    /\ user_last = << >>
    /\ global_last = 0
    /\ command_cooldowns = << >>
    /\ banned = {}
    /\ sessions = << >>
    /\ current_session = 0
    /\ voteTask = << >>
    /\ subs = << >>
    /\ closes = << >>
    /\ calls = << >>
    /\ queue = << >>
    /\ dropped = 0
    /\ execPc = "get"
    /\ execItem = NoItem
    /\ shotPc = "probe"
    /\ vmState \in {"running", "poweroff"}
    /\ info_log = << >>
    /\ rl_calls = << >>
    /\ seen_ids = {}
    /\ yielded = << >>
    /\ cb_log = << >>
    /\ session_lock = FALSE
    /\ resolved = << >>
    /\ chatPc = "stream"

\* the bot as configured: RateLimiter(user_cooldown, global_cooldown) of __init__
Init ==
    /\ InitState
    /\ global_cooldown = GlobalCooldown
    /\ user_cooldown = UserCooldown

\* the timer tasks a behaviour can hold
TaskIds == 1..(MaxSessions * MaxSubs)

VoteTaskStep ==
    \E t \in TaskIds :
        \/ TimerFire(t)
        \/ CallbackWake(t)
        \/ ShutdownReturn(t)
        \/ RestartWake(t)
        \/ StartReturn(t)

\* the whole bot
Next ==
    \/ \E msg \in Msgs : ProcessMessage(msg)
    \/ VoteTaskStep
    \/ ExecGet
    \/ ExecTimeout
    \/ ExecProbeReturn
    \/ ExecReturn
    \/ ShotWake
    \/ ShotProbeReturn
    \/ ShotReturn
    \/ Tick
    \/ BotShutdown

Spec == Init /\ [][Next]_vars

\* the vote manager driven by the chat, with its timer tasks; the bot may be
\* shut down at any moment, which stops the chat loop and leaves the timers alone
NextVote ==
    \/ \E msg \in VoteMsgs : ProcessMessage(msg)
    \/ VoteTaskStep
    \/ BotShutdown

SpecVote == Init /\ [][NextVote]_vars

\* the event loop runs a timer task whose sleep has ended
SpecVoteFair == SpecVote /\ \A t \in 1..MaxSessions : WF_vars(TimerFire(t))

\* the vote manager driven by the chat as time passes: sessions are opened,
\* joined and closed at different times; the result callbacks are left out
NextVoteClock ==
    \/ \E msg \in VoteMsgs : ProcessMessage(msg)
    \/ \E t \in TaskIds : TimerFire(t)
    \/ LongTick

SpecVoteClock == Init /\ [][NextVoteClock]_vars

\* the chat pipeline taken alone: the chat handler, the execution loop and the
\* clock, with no vote timer firing and no screenshot
NextChat ==
    \/ \E msg \in ChatMsgs : ProcessMessage(msg)
    \/ ExecGet
    \/ ExecProbeReturn
    \/ ExecReturn
    \/ LongTick

SpecChat == Init /\ [][NextChat]_vars

\* the event loop runs the execution loop whenever it can go on: an item is in
\* the queue, or the call it waits for returns (VMController._run times out)
SpecChatFair ==
    SpecChat /\ WF_vars(ExecGet) /\ WF_vars(ExecProbeReturn) /\ WF_vars(ExecReturn)

\* the loops of the bot around a shutdown: the chat loop feeding the queue, the
\* execution loop, the screenshot loop and the clock
NextStop ==
    \/ \E msg \in QueueMsgs : ProcessMessage(msg)
    \/ ExecGet
    \/ ExecTimeout
    \/ ExecProbeReturn
    \/ ExecReturn
    \/ ShotWake
    \/ ShotProbeReturn
    \/ ShotReturn
    \/ ChatBreak
    \/ Tick
    \/ BotShutdown

SpecStop == Init /\ [][NextStop]_vars

\* the event loop runs every loop whose wait has ended: queue.get times out
\* after a second, a VBoxManage call after ten, a sleep ends; whether another
\* chat message arrives is up to the chat
SpecStopFair ==
    SpecStop /\ WF_vars(ExecGet) /\ WF_vars(ExecTimeout) /\ WF_vars(ExecProbeReturn)
             /\ WF_vars(ExecReturn) /\ WF_vars(ShotWake) /\ WF_vars(ShotProbeReturn)
             /\ WF_vars(ShotReturn)

\* the chat handler taken alone, fed by a viewer and a moderator as time passes
NextArgs ==
    \/ \E msg \in ArgMsgs \cup BanMsgs : ProcessMessage(msg)
    \/ LongTick

SpecArgs == Init /\ [][NextArgs]_vars

\* a RateLimiter constructed with any global cooldown up to MaxCooldown
InitRate ==
    /\ InitState
    /\ global_cooldown \in 1..MaxCooldown
    /\ user_cooldown = UserCooldown

\* the users and commands of the calls made on it
RateUsers == {"u1", "u2"}

RateCommands == {"move", "stats"}

\* a RateLimiter driven directly by calls of check and record, as time passes
NextRate ==
    \/ \E u \in RateUsers, c \in RateCommands : RateCheck(u, c)
    \/ \E u \in RateUsers, c \in RateCommands : RateRecord(u, c)
    \/ LongTick

SpecRate == InitRate /\ [][NextRate]_vars

\* the calls made on a VoteManager used directly: one user submits major
\* commands, another casts votes
DirectStarter == "u1"

DirectCaster == "u2"

DirectCommands == {"shutdown", "forceshutdown"}

\* a VoteManager driven directly, with its timer tasks and registered callbacks
NextCallbacks ==
    \/ \E c \in DirectCommands : DirectStartVote(DirectStarter, c)
    \/ \E c \in DirectCommands : DirectCastVote(DirectCaster, c)
    \/ \E t \in TaskIds : RunVoteClose(t)
    \/ \E t \in TaskIds : InvokeCallback(t)

SpecCallbacks == Init /\ [][NextCallbacks]_vars

\* the permission resolution taken alone
NextResolve == \E msg \in PermMsgs : ResolvePermission(msg)

SpecResolve == Init /\ [][NextResolve]_vars

\* the message stream taken alone, over every sequence of polled batches
NextStream == \E messages \in Batches : Poll(messages)

SpecStream == Init /\ [][NextStream]_vars

\* the chat pipeline fed with raw texts
NextRaw ==
    \/ \E msg \in RawMsgs : ProcessMessage(msg)
    \/ ExecGet
    \/ ExecProbeReturn
    \/ ExecReturn
    \/ LongTick

SpecRaw == Init /\ [][NextRaw]_vars

---------------------------------------------------------------------------
(* Properties.                                                             *)

\* the tasks that are inside a call on the machine: the execution loop inside
\* executor.execute (other than the sleep of !wait and a refusal), a vote callback inside
\* execute_shutdown's shutdown_vm or start_vm, the screenshot loop inside
\* VMController.screenshot
InFlight ==
    (IF execPc = "exec" /\ ExecutorOp(execItem.cmd.name) \notin {"sleep", "refuse"}
     THEN {"execution"} ELSE {})
    \cup { << "vote", t >> : t \in { u \in DOMAIN voteTask :
                                        voteTask[u].pc \in {"shutdown", "start_vm"} } }
    \cup (IF shotPc = "shot" THEN {"screenshot"} ELSE {})

\* C1: in every reachable state at most one task is inside a call on the
\* machine: while the execution loop is inside executor.execute for a dequeued
\* item, neither a vote callback nor the screenshot loop is, and vice versa.
C1_AtMostOneActionInFlight == Cardinality(InFlight) <= 1

\* the tasks of session i that have closed it
Closers(i) == { t \in DOMAIN voteTask : voteTask[t].session = i /\ voteTask[t].pc # "sleep" }

\* C2: a major command reaches the machine only through a closed vote: no
\* queued or dequeued item is of the major tier, the executor refuses both
\* names, and a callback inside execute_shutdown belongs to a session that is
\* closed and whose winner is the command matching the force flag.
C2_MajorOnlyThroughVote ==
    /\ \A n \in DOMAIN queue : queue[n].cmd.tier # "major"
    /\ execItem.cmd.tier # "major"
    /\ \A name \in {"shutdown", "forceshutdown"} : ExecutorOp(name) = "refuse"
    /\ \A t \in DOMAIN voteTask :
         voteTask[t].pc \in {"shutdown", "restart_wait", "start_vm"}
           => /\ ~sessions[voteTask[t].session].active
              /\ closes[voteTask[t].session] >= 1
              /\ get_winner(sessions[voteTask[t].session])
                   = (IF voteTask[t].force THEN "forceshutdown" ELSE "shutdown")

\* a forced shutdown is in flight for a closed session while an item waits in the queue
C2_Witness ==
    /\ queue # << >>
    /\ \E t \in DOMAIN voteTask : voteTask[t].pc = "shutdown" /\ voteTask[t].force

\* C3: at most one session is active and at most one timer is pending: a
\* session is active exactly while its one timer task sleeps.
C3_AtMostOneActiveSession ==
    /\ Cardinality({ i \in DOMAIN sessions : sessions[i].active }) <= 1
    /\ Cardinality({ t \in DOMAIN voteTask : voteTask[t].pc = "sleep" }) <= 1
    /\ Len(voteTask) = Len(sessions)
    /\ \A i \in DOMAIN sessions : sessions[i].active => i = current_session

\* a second session is open, the first is closed, and a submission has joined the second
C3_Witness ==
    /\ Len(sessions) = 2
    /\ ~sessions[1].active
    /\ sessions[2].active
    /\ Len(subs[2]) = 2

\* C4: in every session the counts add up to the number of voter entries and
\* no count is negative.
C4_CountsMatchVoters ==
    \A i \in DOMAIN sessions :
        /\ SumValues(sessions[i].commands) = Len(sessions[i].voters)
        /\ \A n \in DOMAIN sessions[i].commands : sessions[i].commands[n].v >= 0

\* a session in which a voter has moved the only vote: one command is left with no vote
C4_Witness ==
    \E i \in DOMAIN sessions :
        /\ Len(subs[i]) = 2
        /\ \E n \in DOMAIN sessions[i].commands : sessions[i].commands[n].v = 0

\* the count of a command in a session, 0 for a command it does not hold
Count(s, c) == DictGetOr(s.commands, c, 0)

\* C5: a submission to an active session by a voter who already holds that
\* choice changes no count and no voter entry; one for a different choice takes
\* exactly 1 from the previous choice, adds exactly 1 to the new one and leaves
\* every other count as it was; no count is negative afterwards.
C5_VoteMovesOneCount ==
    [][ \A i \in DOMAIN sessions :
          (i \in DOMAIN sessions' /\ Len(subs'[i]) = Len(subs[i]) + 1) =>
            LET sub == subs'[i][Len(subs'[i])]
                u   == sub[1]
                c   == sub[2]
                s   == sessions[i]
                sn  == sessions'[i]
                all == DictKeys(s.commands) \cup DictKeys(sn.commands)
            IN  /\ s.active
                /\ \A k \in all : Count(sn, k) >= 0
                /\ IF DictHas(s.voters, u) /\ DictGet(s.voters, u) = c
                   THEN sn = s
                   ELSE IF DictHas(s.voters, u)
                   THEN /\ Count(sn, DictGet(s.voters, u)) = Count(s, DictGet(s.voters, u)) - 1
                        /\ Count(sn, c) = Count(s, c) + 1
                        /\ \A k \in all \ {c, DictGet(s.voters, u)} : Count(sn, k) = Count(s, k)
                        /\ DictGet(sn.voters, u) = c
                   ELSE /\ Count(sn, c) = Count(s, c) + 1
                        /\ \A k \in all \ {c} : Count(sn, k) = Count(s, k)
                        /\ DictGet(sn.voters, u) = c ]_vars

\* one voter has submitted twice to a session: the same choice again in one
\* session, a different one in another
C5_Witness ==
    /\ Len(sessions) = 2
    /\ Len(subs[1]) = 2 /\ subs[1][1] = subs[1][2]
    /\ Len(subs[2]) = 2 /\ subs[2][1][1] = subs[2][2][1] /\ subs[2][1][2] # subs[2][2][2]

\* C6: a session is closed at most once, only by its timer task, and the result
\* callback is called once for each close; every opened session is eventually
\* closed and its callback called, so exactly once.
C6_ClosedAndReportedOnce ==
    /\ [](\A i \in DOMAIN sessions :
             /\ closes[i] <= 1
             /\ calls[i] = closes[i]
             /\ (closes[i] = 1) = (~sessions[i].active)
             /\ closes[i] = Cardinality(Closers(i)))
    /\ \A i \in 1..MaxSessions :
         (i \in DOMAIN sessions) ~> (i \in DOMAIN sessions /\ closes[i] = 1 /\ calls[i] = 1)

\* a session that took two submissions has been closed and reported
C6_Witness ==
    \E i \in DOMAIN sessions : Len(subs[i]) = 2 /\ closes[i] = 1 /\ calls[i] = 1

\* C7: every opened session eventually becomes inactive, whatever votes it
\* receives.
C7_SessionEventuallyInactive ==
    \A i \in 1..MaxSessions :
        (i \in DOMAIN sessions /\ sessions[i].active)
            ~> (i \in DOMAIN sessions /\ ~sessions[i].active)

\* a session closed after its opening command lost its only vote
C7_Witness ==
    \E i \in DOMAIN sessions :
        /\ ~sessions[i].active
        /\ sessions[i].commands[1].v = 0

\* C8: the winner reported at the close holds a count that no command of the
\* final counts exceeds.
C8_WinnerHasMaximalCount ==
    \A t \in DOMAIN voteTask :
        voteTask[t].pc # "sleep" =>
            /\ DictHas(voteTask[t].counts, voteTask[t].winner)
            /\ \A n \in DOMAIN voteTask[t].counts :
                 voteTask[t].counts[n].v <= DictGet(voteTask[t].counts, voteTask[t].winner)
            /\ \A n \in DOMAIN sessions[voteTask[t].session].commands :
                 sessions[voteTask[t].session].commands[n].v
                    <= DictGet(voteTask[t].counts, voteTask[t].winner)

\* a close whose winner is not the command that opened the session
C8_Witness ==
    \E t \in DOMAIN voteTask :
        /\ voteTask[t].pc # "sleep"
        /\ voteTask[t].winner # sessions[voteTask[t].session].commands[1].k

RECURSIVE LastChoice(_, _)
LastChoice(submitted, u) ==
    IF submitted = << >> THEN None
    ELSE IF submitted[Len(submitted)][1] = u THEN Lower(submitted[Len(submitted)][2])
    ELSE LastChoice(SubSeq(submitted, 1, Len(submitted) - 1), u)

\* C10: the voter ids passed to the callback are exactly the voters whose
\* last submitted choice is the winner, each once, and their number is the
\* winner's count in the counts passed to the same callback.
C10_VoterIdsAreTheWinnersVoters ==
    \A t \in DOMAIN voteTask :
        voteTask[t].pc # "sleep" =>
            LET ids == voteTask[t].voter_ids
                submitted == subs[voteTask[t].session]
            IN  /\ { ids[n] : n \in DOMAIN ids }
                     = { u \in { submitted[n][1] : n \in DOMAIN submitted } :
                            LastChoice(submitted, u) = voteTask[t].winner }
                /\ \A m, n \in DOMAIN ids : ids[m] = ids[n] => m = n
                /\ Len(ids) = DictGet(voteTask[t].counts, voteTask[t].winner)

\* a close in which a voter who changed sides is reported for the winner
C10_Witness ==
    \E t \in DOMAIN voteTask :
        /\ voteTask[t].pc # "sleep"
        /\ Len(voteTask[t].voter_ids) = 1
        /\ Len(subs[voteTask[t].session]) = 2
        /\ subs[voteTask[t].session][1][1] = voteTask[t].voter_ids[1]
        /\ subs[voteTask[t].session][1][2] # voteTask[t].winner

\* a step in which an admitted command reaches queue.put: RateLimiter.record,
\* which comes just before it, moves the global timestamp to the current time
ReachesPut == global_last' # global_last

\* C11: the queue never holds more than its capacity; an enqueue into a queue
\* with room appends the item and counts no drop; an enqueue into a full queue
\* ends at once, adds exactly 1 to the dropped counter and leaves the queue as
\* it was; the counter moves in no other step.
C11_BoundedNonBlockingQueue ==
    /\ [](Len(queue) <= QueueMaxSize)
    /\ [][ /\ ReachesPut =>
                IF Len(queue) < QueueMaxSize
                THEN /\ Len(queue') = Len(queue) + 1
                     /\ SubSeq(queue', 1, Len(queue)) = queue
                     /\ dropped' = dropped
                ELSE /\ queue' = queue
                     /\ dropped' = dropped + 1
           /\ dropped' # dropped =>
                /\ ReachesPut
                /\ Len(queue) = QueueMaxSize
                /\ dropped' = dropped + 1
                /\ queue' = queue ]_vars

\* the queue was filled with no dequeue in between and one more enqueue has failed
C11_Witness ==
    /\ Len(queue) = QueueMaxSize
    /\ dropped = 1
    /\ execPc = "get"
    /\ execItem = NoItem

\* C12: the queue changes only by an enqueue at its tail or by the execution
\* loop taking its head, and the item the loop holds and hands to the executor
\* is always the one that was at the head: items are dispatched in the order
\* in which their enqueues succeeded.
C12_DispatchedInEnqueueOrder ==
    [][ /\ queue' # queue =>
             \/ /\ Len(queue') = Len(queue) + 1
                /\ SubSeq(queue', 1, Len(queue)) = queue
                /\ execVars' = execVars
             \/ /\ queue # << >>
                /\ queue' = Tail(queue)
                /\ execPc = "get"
                /\ \/ execItem' = Head(queue)
                   \/ ExecutorOp(Head(queue).cmd.name) = "refuse"
        /\ (execItem' # execItem /\ execItem' # NoItem) =>
             /\ queue # << >>
             /\ execItem' = Head(queue)
             /\ queue' = Tail(queue)
        /\ (execPc' = "exec" /\ execPc = "probe") => execItem' = execItem ]_vars

\* the item enqueued first is with the executor while the one enqueued after it waits
C12_Witness ==
    /\ execPc = "exec"
    /\ execItem.user_id = "u1"
    /\ Len(queue) = 1
    /\ queue[1].user_id = "owner"
    /\ user_last["u1"] < user_last["owner"]

\* the authors of the chat pipeline's messages
ChatUsers == { msg.author_id : msg \in ChatMsgs }

\* a step in which a major command of user u passes the limiter's check and is
\* forwarded to the vote manager (the chat of SpecChat holds no !vote, so every
\* submission comes from _handle_major_command)
MajorForwardedBy(u) ==
    \E i \in DOMAIN subs' :
        /\ i \notin DOMAIN subs \/ Len(subs'[i]) > Len(subs[i])
        /\ subs'[i][Len(subs'[i])][1] = u

\* C13: a command is admitted (forwarded to the queue or to the vote manager)
\* no sooner than the global interval after every earlier admission: after the
\* last recorded one, and after the one that opened any vote session.
C13_GlobalIntervalBetweenAdmissions ==
    [][ (ReachesPut \/ \E u \in ChatUsers : MajorForwardedBy(u)) =>
            /\ now - global_last >= global_cooldown
            /\ \A i \in DOMAIN sessions :
                 now - sessions[i].started_at >= global_cooldown ]_vars

\* C14: a command of a user is admitted no sooner than the per-user interval
\* after every earlier admission of a command of the same user: after the last
\* recorded one, and after the one by which that user opened a vote session.
C14_UserIntervalBetweenAdmissions ==
    [][ \A u \in ChatUsers :
          ((ReachesPut /\ u \in DOMAIN user_last' /\ user_last'[u] = now
                /\ UserLast(u) # now)
             \/ MajorForwardedBy(u)) =>
            /\ now - UserLast(u) >= user_cooldown
            /\ \A i \in DOMAIN sessions :
                 subs[i][1][1] = u => now - sessions[i].started_at >= user_cooldown ]_vars

\* C15: two answers to the same information command that has a configured
\* interval are at least that interval apart.
C15_CommandIntervalBetweenAnswers ==
    \A i, j \in DOMAIN info_log :
        (/\ i < j
         /\ info_log[i].name = info_log[j].name
         /\ info_log[i].name \in DOMAIN command_intervals)
        => info_log[j].t - info_log[i].t >= command_intervals[info_log[i].name]

\* call j is a record and call k a later check with no record in between
LatestRecordBefore(j, k) ==
    /\ j < k
    /\ rl_calls[j].op = "record"
    /\ rl_calls[k].op = "check"
    /\ \A m \in (j + 1)..(k - 1) : rl_calls[m].op # "record"

\* C16 (as the code has it): a check made less than the global cooldown G after
\* the latest record is denied on the global scope, and the wait it reports is
\* G minus the time since that record; after two records at t and t+D a check
\* at t+D therefore reports G, whatever D is.
C16_WaitCountsFromLatestRecord ==
    \A j, k \in DOMAIN rl_calls :
        (LatestRecordBefore(j, k) /\ rl_calls[k].t - rl_calls[j].t < global_cooldown)
        => /\ ~rl_calls[k].result.allowed
           /\ rl_calls[k].result.scope = "global"
           /\ rl_calls[k].result.wait
                = global_cooldown - (rl_calls[k].t - rl_calls[j].t)

\* two records less than G but more than 0 apart, then a check at the time of the second
C16_Witness ==
    /\ Len(rl_calls) = 3
    /\ rl_calls[1].op = "record"
    /\ rl_calls[2].op = "record"
    /\ rl_calls[3].op = "check"
    /\ rl_calls[2].t > rl_calls[1].t
    /\ rl_calls[2].t - rl_calls[1].t < global_cooldown
    /\ rl_calls[3].t = rl_calls[2].t

\* C16 (as stated): after two records at t and t+D with 0 <= D < G, a check at
\* the time of the second record is denied and reports a wait of G - D.
C16_WaitIsCooldownMinusGap ==
    \A i, j, k \in DOMAIN rl_calls :
        (/\ i < j /\ j < k
         /\ rl_calls[i].op = "record"
         /\ rl_calls[j].op = "record"
         /\ rl_calls[k].op = "check"
         /\ rl_calls[j].t - rl_calls[i].t < global_cooldown
         /\ rl_calls[k].t = rl_calls[j].t)
        => /\ ~rl_calls[k].result.allowed
           /\ rl_calls[k].result.wait
                = global_cooldown - (rl_calls[j].t - rl_calls[i].t)

\* C17: a call of check leaves the limiter's state as it was: the per-user
\* table (keys and values), the per-command table and the global timestamp.
C17_CheckLeavesRateStateUnchanged ==
    [][ (/\ Len(rl_calls') = Len(rl_calls) + 1
         /\ rl_calls'[Len(rl_calls')].op = "check")
        => rateVars' = rateVars ]_vars

\* a step of the chat handler that admits nothing: no item enters the queue,
\* no vote is touched and no information command is answered
RejectingStep ==
    /\ now' = now
    /\ queue' = queue
    /\ execVars' = execVars
    /\ voteVars' = voteVars
    /\ info_log' = info_log

\* the per-user timestamp after the step, 0.0 for a user the table does not hold
UserLastAfter(user_id) == IF user_id \in DOMAIN user_last' THEN user_last'[user_id] ELSE 0

\* C18: handling a message whose command is rejected (not a command,
\* permission denied, rate limited, queue full) leaves the global, per-user and
\* per-command timestamps as they were.
C18_RejectionKeepsTimestamps ==
    [][ RejectingStep =>
            /\ global_last' = global_last
            /\ command_cooldowns' = command_cooldowns
            /\ \A u \in ChatUsers : UserLastAfter(u) = UserLast(u) ]_vars

\* the command of the message is refused for lack of permission
PermissionDenied(msg) ==
    /\ msg.text.bang
    /\ msg.author_id \notin banned
    /\ parse_command(msg.text) # NotACommand
    /\ PermValue[parse_command(msg.text).required_permission] > PermValue[Resolve(msg)]

\* the overlay feed after the handler has answered a refused command
DenialFeed(msg) ==
    announce_for(<< >>, msg.author_display,
                 << "No permission", parse_command(msg.text).name >>, now)

\* whoever polls GET /state: the stream's browser source, or anyone else
OverlayPollers == {"OBS", "U1", "U2", "Owner"}

\* what a poller is served of a feed
ServedTo(poller, chat, since) == handle_state(chat, since)

\* C19: the notice that answers a command refused for lack of permission is
\* served to the requester only: no other poller of the overlay receives it.
C19_DenialNoticeOnlyToRequester ==
    \A msg \in ChatMsgs :
        PermissionDenied(msg) =>
            \A poller \in OverlayPollers \ {msg.author_display} :
                ServedTo(poller, DenialFeed(msg), 0) = << >>

\* C20: however often a message id is delivered, in one batch or in several,
\* the stream yields that message at most once.
C20_YieldedAtMostOnce ==
    \A i, j \in DOMAIN yielded : yielded[i] = yielded[j] => i = j

FailureIsAnnounced ==
    execPc = "exec" =>
        \A outcome \in Outcomes(execItem.cmd.name) \ {"ok"} :
            LET result == ExecResult(execItem.cmd.name, outcome)
            IN  ~result.success /\ Announced(result)

\* the execution loop has not ended while the bot runs
LoopAlive == running => execPc # "done"

\* the queue is served: it is dequeued from again and again, or it is empty or the
\* bot has stopped again and again
QueueServed == []<><< ExecGet >>_vars \/ []<>(queue = << >> \/ ~running)

\* C22: no failure of one command ends the pipeline: when the executor or the
\* actuator raises or fails for a dequeued item, the requester gets a visible
\* failure notice, the consumer loop keeps running, and every item enqueued
\* afterwards while the bot runs is eventually dequeued.
C22_FailureNeverStopsThePipeline ==
    /\ [](FailureIsAnnounced /\ LoopAlive)
    /\ QueueServed

\* a timer task has fired and its result callback has not returned yet: it
\* sleeps, or it is inside the shutdown and restart of the winning action
Dispatching ==
    \E t \in DOMAIN voteTask :
        voteTask[t].pc \in {"cb_sleep", "shutdown", "restart_wait", "start_vm"}

\* C23: the vote slot is free for a new session only once the result of the
\* previous session has been dispatched: from the firing of a session's timer to
\* the return of its result callback, the winning action included, no call of
\* start_vote creates a session.
C23_NoNewSessionDuringDispatch ==
    [][Dispatching => Len(sessions') = Len(sessions)]_vars

\* the entries of the log made by task t for callback k
CallsOf(t, k) == { n \in DOMAIN cb_log : cb_log[n].task = t /\ cb_log[n].cb = k }

\* C24: the result callbacks are called outside the session lock and one by one:
\* when a callback raises, every callback registered after it is still called for
\* that session, with the same winner, counts and voter list, and the lock is
\* never left held.
C24_CallbacksIsolated ==
    /\ ~session_lock
    /\ \A t \in DOMAIN voteTask :
          /\ \A k \in Callbacks : Cardinality(CallsOf(t, k)) <= 1
          /\ \A n \in DOMAIN cb_log :
                cb_log[n].task = t =>
                   /\ cb_log[n].winner = voteTask[t].winner
                   /\ cb_log[n].counts = voteTask[t].counts
                   /\ cb_log[n].voter_ids = voteTask[t].voter_ids
                   /\ \A k \in 1..(cb_log[n].cb - 1) :
                         \E m \in 1..(n - 1) : m \in CallsOf(t, k)
          /\ voteTask[t].pc = "done" => \A k \in Callbacks : CallsOf(t, k) # {}

\* the first callback of the first session raised, the later ones were called all
\* the same, and a second session was then opened and voted in
C24_Witness ==
    /\ Len(voteTask) = 2
    /\ voteTask[1].pc = "done"
    /\ \E n \in CallsOf(1, 1) : cb_log[n].raised
    /\ \E n \in CallsOf(1, NumCallbacks) : ~cb_log[n].raised
    /\ Len(subs[2]) = 2

\* the command a message submits to the vote: a major command, or the target of
\* a well-formed !vote; None for every other message
Submitted(msg) ==
    LET cmd == parse_command(msg.text)
    IN  IF cmd.tier = "major" THEN cmd.name
        ELSE IF cmd.name = "vote" /\ LStripBang(Lower(cmd.args[1])) \in {"shutdown", "forceshutdown"}
        THEN LStripBang(Lower(cmd.args[1]))
        ELSE None

\* C25: a major command submitted while no session is active creates a session
\* that holds exactly one vote, for that command by its submitter, and starts its
\* timer; a major command or a vote cast while a session is active is applied to
\* that session as the voter's choice, and changes neither its start time nor
\* its duration, nor starts a timer.
C25_SeededThenFolded ==
    [][\A msg \in VoteMsgs :
          (Submitted(msg) # None /\ ProcessMessage(msg)) =>
             IF SessionOpen
             THEN /\ Len(sessions') = Len(sessions)
                  /\ current_session' = current_session
                  /\ voteTask' = voteTask
                  /\ sessions'[current_session].started_at = sessions[current_session].started_at
                  /\ sessions'[current_session].duration = sessions[current_session].duration
                  /\ sessions'[current_session].active
                  /\ DictGet(sessions'[current_session].voters, msg.author_id) = Submitted(msg)
                  /\ \A i \in DOMAIN sessions : i # current_session => sessions'[i] = sessions[i]
             ELSE IF parse_command(msg.text).tier = "major"
             THEN /\ sessions' = Append(sessions,
                        [ commands   |-> << [k |-> Submitted(msg), v |-> 1] >>,
                          voters     |-> << [k |-> msg.author_id, v |-> Submitted(msg)] >>,
                          started_at |-> now,
                          duration   |-> VoteDuration,
                          active     |-> TRUE ])
                  /\ total_votes(sessions'[Len(sessions')]) = 1
                  /\ current_session' = Len(sessions) + 1
                  /\ Len(voteTask') = Len(voteTask) + 1
                  /\ voteTask'[Len(voteTask')].session = Len(sessions) + 1
                  /\ voteTask'[Len(voteTask')].pc = "sleep"
             ELSE UNCHANGED voteVars]_vars

\* a session opened at one time has been joined by another voter at a later time
C25_Witness ==
    /\ SessionOpen
    /\ sessions[current_session].started_at < now
    /\ Len(subs[current_session]) = 2
    /\ subs[current_session][1][1] # subs[current_session][2][1]
    /\ Len(sessions[current_session].voters) = 2

\* the execution loop is inside executor.execute for a command that needs the
\* machine: its handler is making, or is about to make, its VBoxManage calls
ActionUnderWay == execPc = "exec" /\ execItem.cmd.name \notin ReadyAllow

\* C26: for a dequeued item whose command is outside the allow-list (startvm,
\* stats, leaderboard, uptime, help, screenshot) the readiness of the machine is
\* confirmed before dispatch, and the action of such an item is never invoked
\* while the machine is not ready.
C26_NoActionWhileNotReady == ActionUnderWay => vmState = "running"

\* C27: an admitted admin-tier system command (startvm, reset) is executed at
\* once, without being placed in the execution queue: it is never found in the
\* queue, and so never waits behind a queued classic command.
C27_AdminBypassesQueue ==
    \A i \in DOMAIN queue : queue[i].cmd.tier # "admin"

\* the levels a message qualifies for: an id list and a badge qualify each on
\* its own
Applicable(msg) ==
    {"VIEWER"}
    \cup (IF msg.author_id \in AdminIds \/ msg.is_owner THEN {"ADMIN"} ELSE {})
    \cup (IF msg.author_id \in ModIds \/ msg.is_moderator THEN {"MOD"} ELSE {})
    \cup (IF msg.is_member THEN {"MEMBER"} ELSE {})

\* the highest of a set of levels in the order Viewer < Member < Mod < Admin
Highest(levels) == CHOOSE p \in levels : \A q \in levels : PermValue[q] <= PermValue[p]

\* C28: permission resolution returns the highest applicable level, in the order
\* Viewer < Member < Mod < Admin, for every combination of admin-list
\* membership, mod-list membership and owner, moderator and member badges.
C28_HighestApplicableLevel ==
    \A n \in DOMAIN resolved : resolved[n].perm = Highest(Applicable(resolved[n].msg))

\* a member on the mod list who owns the channel has been resolved to ADMIN, and
\* a member without any other qualification to MEMBER
C28_Witness ==
    /\ \E n \in DOMAIN resolved :
          /\ resolved[n].msg.author_id \in ModIds \ AdminIds
          /\ resolved[n].msg.is_owner /\ resolved[n].msg.is_member
          /\ resolved[n].perm = "ADMIN"
    /\ \E n \in DOMAIN resolved :
          /\ resolved[n].msg.author_id \notin AdminIds \cup ModIds
          /\ ~resolved[n].msg.is_owner /\ ~resolved[n].msg.is_moderator
          /\ resolved[n].msg.is_member
          /\ resolved[n].perm = "MEMBER"

\* the message reaches RateLimiter.check in the current state
ReachesCheck(msg) ==
    /\ msg.text.bang
    /\ msg.author_id \notin banned
    /\ parse_command(msg.text) # NotACommand
    /\ ~PermissionDenied(msg)
    /\ parse_command(msg.text).name \notin InfoCommands \cup {"vote", "ban", "unban"}

\* the message reaches the check and the check denies it
Limited(msg) ==
    ReachesCheck(msg) /\ ~check(msg.author_id, parse_command(msg.text).name).allowed

\* what the handler announces on the overlay for a message in the current
\* state: the bot entries it adds to an empty feed
HandlerFeed(msg) ==
    LET cmd == parse_command(msg.text)
        user == msg.author_display
    IN  IF ~msg.text.bang \/ msg.author_id \in banned \/ cmd = NotACommand THEN << >>
        ELSE IF PermissionDenied(msg) THEN DenialFeed(msg)
        ELSE IF cmd.name \in InfoCommands THEN announce(<< >>, << "info", cmd.name >>, now)
        ELSE IF cmd.name = "vote"
        THEN IF LStripBang(Lower(cmd.args[1])) \notin {"shutdown", "forceshutdown"}
             THEN announce_for(<< >>, user, << "Vote options" >>, now)
             ELSE IF SessionOpen /\ add_vote_ret(sessions[current_session], msg.author_id,
                                                 LStripBang(Lower(cmd.args[1])))
             THEN announce_for(<< >>, user, << "Voted" >>, now)
             ELSE announce_for(<< >>, user, << "No active vote" >>, now)
        ELSE IF cmd.name \in {"ban", "unban"}
        THEN announce(<< >>, << cmd.name, LStripAt(cmd.args[1]) >>, now)
        ELSE IF ~check(msg.author_id, cmd.name).allowed
        THEN IF cmd.tier = "classic" /\ cmd.name \in SilentWhenLimited THEN << >>
             ELSE announce_for(<< >>, user,
                               << "wait", check(msg.author_id, cmd.name).wait >>, now)
        ELSE IF cmd.tier = "major"
        THEN IF SessionOpen THEN announce_for(<< >>, user, << "voted", cmd.name >>, now)
             ELSE announce(<< >>, << "VOTE STARTED", cmd.name >>, now)
        ELSE IF Len(queue) < QueueMaxSize THEN << >>
        ELSE announce_for(<< >>, user, << "Queue full" >>, now)

\* the points the handler awards the sender of a message in the current state
PointsAwarded(msg) ==
    IF ReachesCheck(msg) /\ ~Limited(msg) /\ parse_command(msg.text).tier # "major"
    THEN PointsPerCommand ELSE 0

\* the feed holds one notice, addressed to the user, that tells a waiting time
OneWaitNotice(feed, user) ==
    /\ Len(feed) = 1
    /\ feed[1].text[1] = "@" /\ feed[1].text[2] = user
    /\ feed[1].text[3][1] = "wait" /\ feed[1].text[3][2] > 0

\* C29: when the admission check denies a command, the outcome depends on the
\* command only: a classic command among move, click, rclick, type, send, key,
\* enter, scroll, abs and drag is dropped without a notice, every other command
\* gets exactly one wait-time notice for its requester; either way nothing is
\* enqueued, no vote is cast and no points are awarded.
C29_LimitedSilentOrNoticed ==
    /\ [](\A msg \in ChatMsgs :
            Limited(msg) =>
               /\ IF /\ parse_command(msg.text).tier = "classic"
                     /\ parse_command(msg.text).name \in
                           {"move", "click", "rclick", "type", "send", "key", "enter",
                            "scroll", "abs", "drag"}
                  THEN HandlerFeed(msg) = << >>
                  ELSE OneWaitNotice(HandlerFeed(msg), msg.author_display)
               /\ PointsAwarded(msg) = 0)
    /\ [][\A msg \in ChatMsgs :
            (Limited(msg) /\ ProcessMessage(msg)) => UNCHANGED << queueVars, voteVars >>]_vars

\* a command is waiting in the queue and, within the cooldown of its admission,
\* the handler is about to turn away a move, an admin command and a major command
C29_Witness ==
    /\ queue # << >>
    /\ \E msg \in ChatMsgs : Limited(msg) /\ parse_command(msg.text).name = "move"
    /\ \E msg \in ChatMsgs : Limited(msg) /\ parse_command(msg.text).name = "startvm"
    /\ \E msg \in ChatMsgs : Limited(msg) /\ parse_command(msg.text).tier = "major"

\* C30: whenever the actuator call made for a dequeued command fails (a
\* non-zero return code or a timeout), the result of the command is a failure
\* and a failure notice is announced to the requester: no such command is
\* reported as successful or passes in silence.
C30_FailedCallIsReportedFailed ==
    (execPc = "exec" /\ "failed" \in Outcomes(execItem.cmd.name)) =>
        /\ ~ExecResult(execItem.cmd.name, "failed").success
        /\ Announced(ExecResult(execItem.cmd.name, "failed"))

\* C31: an actuator call that fails or times out is a failure and is never
\* retried: for one dequeued command, once a VBoxManage call has returned a
\* failure or expired, no further call is made to accomplish the same action.
C31_NoCallAfterFailedCall ==
    (execPc = "exec" /\ execItem.cmd.name = "type") =>
        \A rc \in {1, -1} :
            LET made == type_text(execItem.cmd.args[1], rc)
            IN  \A i \in DOMAIN made : made[i].rc # 0 => i = Len(made)

\* C32: the consumer never blocks for ever on an empty queue: once the running
\* flag is false, the execution loop finishes at most the item it is executing,
\* without going back for another one, and after at most one more wait on the
\* queue it has exited, whether the queue is empty or not.
C32_LoopExitsAfterShutdown ==
    /\ [][(~running /\ execPc \in {"probe", "exec"}) => execPc' # "get"]_vars
    /\ (~running ~> execPc = "done")

\* the loop has exited after a shutdown while items were still queued
C32_Witness == ~running /\ execPc = "done" /\ queue # << >>

\* C33: the dedup memory evicts oldest-first: after a trim, each of the
\* SeenKeep ids seen most recently is still remembered, so a redelivery of it
\* is suppressed.
C33_RecentIdsRemembered ==
    \A i \in DOMAIN yielded :
        i > Len(yielded) - SeenKeep => yielded[i] \in seen_ids

C35_NoActiveVoteOnlyWhenClosed ==
    \A msg \in VoteMsgs :
        (/\ SessionOpen
         /\ parse_command(msg.text).name = "vote"
         /\ Submitted(msg) \in {"shutdown", "forceshutdown"})
        => HandlerFeed(msg) = announce_for(<< >>, msg.author_display, << "Voted" >>, now)

\* C36: once the timer of a session has fired and the session is inactive, no
\* later start_vote or cast_vote changes its counts or its voter map: the
\* winner, the counts and the voter ids handed to the callbacks are those of the
\* votes accepted while the session was active, under any interleaving of the
\* casts with the close.
C36_ClosedSessionIsFrozen ==
    /\ [][\A i \in DOMAIN sessions : ~sessions[i].active => sessions'[i] = sessions[i]]_vars
    /\ [](\A t \in DOMAIN voteTask :
            voteTask[t].pc # "sleep" =>
                LET s == sessions[voteTask[t].session]
                IN  /\ ~s.active
                    /\ voteTask[t].winner = get_winner(s)
                    /\ voteTask[t].counts = get_vote_counts(s)
                    /\ voteTask[t].voter_ids = voter_ids_of(s, voteTask[t].winner))

\* the result of a closed session has been delivered, and a later session has
\* since been opened and joined
C36_Witness ==
    /\ \E t \in DOMAIN voteTask :
          voteTask[t].pc # "sleep" /\ voteTask[t].session # current_session
    /\ SessionOpen
    /\ Len(subs[current_session]) > 1

\* C37: every session that closes has a winner with at least one vote: an
\* opened session always holds at least one voter entry, so get_winner never
\* returns None at the close and the "no winner" branch of the result callback
\* is never taken.
C37_ClosedSessionHasWinner ==
    /\ \A i \in DOMAIN sessions :
          /\ sessions[i].voters # << >>
          /\ get_winner(sessions[i]) # None
          /\ \E j \in DOMAIN sessions[i].commands :
                /\ sessions[i].commands[j].k = get_winner(sessions[i])
                /\ sessions[i].commands[j].v >= 1
    /\ \A t \in DOMAIN voteTask :
          voteTask[t].pc # "sleep" =>
              voteTask[t].winner # None /\ voteTask[t].voter_ids # << >>

\* a session has closed with a winner while another of its commands, given up
\* by its only voter, holds no vote
C37_Witness ==
    \E t \in DOMAIN voteTask :
        /\ voteTask[t].pc # "sleep"
        /\ voteTask[t].winner # None
        /\ \E j \in DOMAIN sessions[voteTask[t].session].commands :
              sessions[voteTask[t].session].commands[j].v = 0

\* C38: after a moderator's ban naming a participant has been processed, and
\* until an unban naming them is, every command message of that participant is
\* dropped before it is parsed: no change of the rate state, no vote, nothing
\* enqueued, no notice; a ban sent by someone below MOD changes nothing.
C38_BannedParticipantIsDropped ==
    [][\A msg \in ArgMsgs :
          /\ (msg.author_display \in banned /\ ProcessMessage(msg))
             => UNCHANGED << rateVars, voteVars, queueVars >> /\ HandlerFeed(msg) = << >>
          /\ (parse_command(msg.text).name = "ban" /\ ProcessMessage(msg))
             => UNCHANGED banned]_vars

\* C39: a command turned away because the execution queue is full leaves the
\* record of its requester as it was: the counter of executed commands and the
\* points grow only for a command whose enqueue succeeded.
C39_QueueFullAwardsNothing ==
    \A msg \in ChatMsgs :
        (/\ ReachesCheck(msg) /\ ~Limited(msg)
         /\ parse_command(msg.text).tier # "major"
         /\ Len(queue) >= QueueMaxSize)
        => PointsAwarded(msg) = 0

\* C40: after shutdown has set the running flag to false, every loop started
\* by start eventually exits, also when no further chat message arrives, and
\* the execution loop dispatches nothing once it has seen the flag.  (The save
\* loop and the vote ticker are loops of a sleep and a test of the flag, as the
\* screenshot loop is.)
C40_AllLoopsExitAfterShutdown ==
    /\ ~running ~> (chatPc = "done" /\ execPc = "done" /\ shotPc = "done")
    /\ [][execPc = "done" => execPc' = "done"]_vars

=============================================================================
